---- MODULE Spec2Model ----
(***************************************************************************)
(* The Kademlia routing table of src/routing_table.go: a slice of lazily   *)
(* created k-buckets, each a container/list of contacts, with add, remove, *)
(* clear, ContactFromID (lookup) and findKNearestContacts.                 *)
(*                                                                         *)
(* A list is a sequence whose first element is the list's Front(); the     *)
(* element a loop over it meets after the last contact is in Elements.  A  *)
(* Go run-time panic (index out of range, nil pointer dereference, failed  *)
(* type assertion) ends the program: the call is recorded with panic =     *)
(* TRUE and nothing follows.                                               *)
(***************************************************************************)
EXTENDS Integers, Sequences, FiniteSets, TLC

\* Bucket capacity.  The program uses 20 in three places (the constant k,
\* NewKBucket(20) at line 104, make([]Contact, 20) at line 149); the model
\* scales the three to one small number.
K == 3

\* Width of an identifier in bits.  The program's identifiers are SHA-1
\* values (160 bits, one bucket per bit: line 44); the model scales it.
IdBits == 3

\* Width kept by big.Int.Uint64() (64 in the program), scaled with IdBits.
WordBits == 1

RECURSIVE Pow2(_)
Pow2(n) == IF n = 0 THEN 1 ELSE 2 * Pow2(n - 1)

Ids == 0 .. (Pow2(IdBits) - 1)

\* The network addresses of the contacts handed over in calls made one
\* after the other; 0 is the zero-valued net.TCPAddr{}.
Addrs == 0 .. 4
ZeroAddr == 0

\* The address of the node that owns the table.
OwnerAddrs == {2}

\* What an index computation yields when there is no index (a node is never
\* indexed against itself); indexing the bucket slice with it panics.
NoIndex == 0 - 1

----------------------------------------------------------------------------
(* Contacts *)

\* sha1.Sum(addr.String()) read as an integer: a fixed one-to-one map of
\* the addresses to identifiers.
HashTable == <<3, 0, 5, 6, 1, 4, 2>>

HashAddr(addr) == HashTable[addr + 1] % Pow2(IdBits)

NewContact(addr) == [Id |-> HashAddr(addr), Addr |-> addr]

\* The zero value of the struct Contact.
ZeroContact == [Id |-> 0, Addr |-> ZeroAddr]

\* Peers heard from again at an address other than the one their id was
\* derived from: <<a, b>> is the peer of address a, seen at address b.
Moved == {<<0, 1>>, <<0, 3>>, <<2, 0>>}

\* The contacts handed to add and remove.
Contacts ==
  {NewContact(a) : a \in Addrs}
    \cup {[Id |-> HashAddr(m[1]), Addr |-> m[2]] : m \in Moved}

AreEqualContacts(a, b) == a.Id = b.Id

----------------------------------------------------------------------------
(* Identifiers and distance *)

RECURSIVE Xor(_, _)
Xor(a, b) ==
  IF a = 0 /\ b = 0 THEN 0
  ELSE (((a % 2) + (b % 2)) % 2) + 2 * Xor(a \div 2, b \div 2)

distanceBetween(a, b) == Xor(a, b)

RECURSIVE BitLen(_)
BitLen(n) == IF n = 0 THEN 0 ELSE 1 + BitLen(n \div 2)

\* Index of the highest set bit of the distance, counted from the most
\* significant bit of the width.
bucketIndex(ownerID, peerID) ==
  LET d == distanceBetween(ownerID, peerID)
  IN IF d = 0 THEN NoIndex ELSE IdBits - BitLen(d)

\* big.Int.Uint64(): the low bits of the value.
Uint64(x) == x % Pow2(WordBits)

----------------------------------------------------------------------------
(* State *)

VARIABLES
  owner,     \* the id of the node that owns the table
  kBuckets,  \* RoutingTable.kBuckets: index -> bucket; <<>> is the nil slice
  before,    \* kBuckets as it was when the last call started
  last,      \* the last call: operation, arguments, result
  find,      \* a findKNearestContacts call taken line by line: its locals
  calls      \* calls running as goroutines: the locals of each

vars == <<owner, kBuckets, before, last, find, calls>>

\* A slot of the slice holding no bucket (a nil *KBucket).
NilBucket == [alloc |-> FALSE, contacts |-> <<>>, lruCache |-> <<>>]

NewKBucket == [alloc |-> TRUE, contacts |-> <<>>, lruCache |-> <<>>]

NewRoutingTable == [i \in 0 .. (IdBits - 1) |-> NilBucket]

GetKBucketFromID(id) == bucketIndex(owner, id)

GetKBucketFromAddr(addr) == bucketIndex(owner, HashAddr(addr))

NoCall ==
  [op |-> "new", contact |-> ZeroContact, id |-> 0, found |-> FALSE,
   res |-> <<>>, panic |-> FALSE, lruDead |-> FALSE, again |-> FALSE]

\* No findKNearestContacts call is being stepped through.
NoFind ==
  [pc |-> "idle", id |-> 0, index |-> 0, curr |-> 0, kNearest |-> <<>>,
   visited |-> <<>>]

\* The goroutines of the concurrent specification.
Goroutines == {1, 2}

\* A goroutine that is in no call.  In a call: where it stands (pc), the
\* index it computed, what addContact or removeContact found (decision) with
\* the list element it holds (its position, 0 once unlinked), whether the
\* bucket it holds is no longer the table's (orphan), and for a contact
\* turned away the least-recently seen contact and what a ping of it would
\* say.
NoGoroutine ==
  [pc |-> "idle", op |-> "none", contact |-> ZeroContact, index |-> 0,
   decision |-> "none", element |-> 0, orphan |-> FALSE, lruDead |-> FALSE,
   lru |-> ZeroContact, panic |-> FALSE]

Init ==
  /\ owner \in {HashAddr(a) : a \in OwnerAddrs}
  /\ kBuckets = NewRoutingTable
  /\ before = NewRoutingTable
  /\ last = NoCall
  /\ find = NoFind
  /\ calls = [g \in Goroutines |-> NoGoroutine]

----------------------------------------------------------------------------
(* KBucket *)

\* What `for e := Front(); e != nil; e = e.Next()` passes over, each element
\* as `curr, _ := e.Value.(Contact)` reads it.  NewKBucket stores the list by
\* value (*list.New(), lines 129 and 131), so the ring of the stored list
\* closes through the root of the list it was copied from: Front() is nil
\* while Len() is 0, otherwise Next() of the last contact is that root, an
\* element of no list whose Value is nil and reads as the zero Contact.
Elements(contacts) ==
  IF contacts = <<>> THEN <<>> ELSE Append(contacts, ZeroContact)

\* The element at position e is the root of the list copied from.
IsRoot(contacts, e) == e > Len(contacts)

\* Position of the first element of the list that equals `contact`; 0 for nil.
getFromList(contacts, contact) ==
  LET elements == Elements(contacts)
      hits == {i \in 1 .. Len(elements) : AreEqualContacts(elements[i], contact)}
  IN IF hits = {} THEN 0 ELSE CHOOSE i \in hits : \A j \in hits : i <= j

\* A slice made with its length and never appended to (make([]Contact, n),
\* lines 60 and 149) left without its zero values: it holds what was put in.
Padded_None(contacts, n) == contacts

\* A slice made with length n (make([]Contact, n), lines 60 and 149) into
\* which the contacts were written: the contacts first, zero values after.
Padded(contacts, n) ==
  contacts \o [i \in 1 .. (n - Len(contacts)) |-> ZeroContact]

\* getAllContacts writes past the end of its slice (line 153): the list holds
\* as many contacts as the slice has places, and the loop passes over one
\* element more.
Overrun(contacts) == Len(Elements(contacts)) > K

\* A slice of fixed length, the list's elements first, zero values after.
getAllContacts(contacts) == Padded(Elements(contacts), K)

\* The list with the element at position e unlinked.
Without(contacts, e) ==
  [i \in 1 .. (Len(contacts) - 1) |->
     IF i < e THEN contacts[i] ELSE contacts[i + 1]]

\* list.Remove: nothing happens to an element of another list.
Remove(contacts, e) ==
  IF IsRoot(contacts, e) THEN contacts ELSE Without(contacts, e)

\* list.MoveToFront: nothing happens to an element of another list.
MoveToFront(contacts, e) ==
  IF IsRoot(contacts, e) THEN contacts
  ELSE <<contacts[e]>> \o Without(contacts, e)

\* addContact with the bucket-full test of line 169 off by one.
addContact_AdmitsAtK(contacts, contact) ==
  LET element == getFromList(contacts, contact)
  IN IF element # 0
     THEN [contacts |-> MoveToFront(contacts, element), ret |-> TRUE]
     ELSE IF Len(contacts) <= K
          THEN [contacts |-> <<contact>> \o contacts, ret |-> TRUE]
          ELSE [contacts |-> contacts, ret |-> FALSE]

\* addContact evicting where line 186 turns the contact away: a full bucket
\* loses its front element and takes the new contact at the back.
addContact_EvictsWhenFull(contacts, contact) ==
  LET element == getFromList(contacts, contact)
  IN IF element # 0
     THEN [contacts |-> MoveToFront(contacts, element), ret |-> TRUE]
     ELSE IF Len(contacts) < K
          THEN [contacts |-> <<contact>> \o contacts, ret |-> TRUE]
          ELSE [contacts |-> Without(contacts, 1) \o <<contact>>, ret |-> TRUE]

\* The list after the call, and the boolean returned.
addContact(contacts, contact) ==
  LET element == getFromList(contacts, contact)
  IN IF element # 0
     THEN [contacts |-> MoveToFront(contacts, element), ret |-> TRUE]
     ELSE IF Len(contacts) < K
          THEN [contacts |-> <<contact>> \o contacts, ret |-> TRUE]
          ELSE [contacts |-> contacts, ret |-> FALSE]

removeContact(contacts, contact) ==
  LET element == getFromList(contacts, contact)
  IN IF element # 0
     THEN [contacts |-> Remove(contacts, element), ret |-> TRUE]
     ELSE [contacts |-> contacts, ret |-> FALSE]

----------------------------------------------------------------------------
(* RoutingTable *)

\* self.kBuckets[index] is an index out of range.
OutOfRange(index) == index \notin DOMAIN kBuckets

\* The previous call was the same operation on the same contact, it
\* returned true and it changed the table.
Again(op, contact) ==
  /\ last.op = op
  /\ last.contact = contact
  /\ last.found
  /\ ~last.panic
  /\ kBuckets # before

Panicked(op, contact, id) ==
  [op |-> op, contact |-> contact, id |-> id, found |-> FALSE, res |-> <<>>,
   panic |-> TRUE, lruDead |-> FALSE, again |-> Again(op, contact)]

\* Whether the new contact found its bucket full: the case in which the
\* commented-out lines 173-185 would ping the least-recently seen node.
BucketFull(contacts, contact) ==
  getFromList(contacts, contact) = 0 /\ ~(Len(contacts) < K)

add(contact) ==
  LET index == GetKBucketFromAddr(contact.Addr)
  IN /\ ~last.panic
     /\ before' = kBuckets
     /\ owner' = owner
     /\ IF OutOfRange(index)
        THEN /\ kBuckets' = kBuckets
             /\ last' = Panicked("add", contact, contact.Id)
        ELSE LET bucket == IF kBuckets[index].alloc THEN kBuckets[index]
                                                    ELSE NewKBucket
                 r == addContact(bucket.contacts, contact)
             IN /\ kBuckets' =
                     [kBuckets EXCEPT ![index] =
                        [bucket EXCEPT !.contacts = r.contacts]]
                \* whether the least-recently seen node would answer a ping;
                \* the program never asks
                /\ \E dead \in (IF BucketFull(bucket.contacts, contact)
                                THEN BOOLEAN ELSE {FALSE}) :
                     last' = [op |-> "add", contact |-> contact,
                              id |-> contact.Id, found |-> r.ret,
                              res |-> <<>>, panic |-> FALSE, lruDead |-> dead,
                              again |-> Again("add", contact)]

remove(contact) ==
  LET index == GetKBucketFromAddr(contact.Addr)
  IN /\ ~last.panic
     /\ before' = kBuckets
     /\ owner' = owner
     /\ IF OutOfRange(index) \/ ~kBuckets[index].alloc
        THEN \* index out of range, or removeContact on a nil *KBucket
             /\ kBuckets' = kBuckets
             /\ last' = Panicked("remove", contact, contact.Id)
        ELSE LET r == removeContact(kBuckets[index].contacts, contact)
             IN /\ kBuckets' = [kBuckets EXCEPT ![index].contacts = r.contacts]
                /\ last' = [op |-> "remove", contact |-> contact,
                            id |-> contact.Id, found |-> r.ret, res |-> <<>>,
                            panic |-> FALSE, lruDead |-> FALSE,
                            again |-> Again("remove", contact)]

clear ==
  /\ ~last.panic
  /\ before' = kBuckets
  /\ owner' = owner
  /\ kBuckets' = <<>>
  /\ last' = [NoCall EXCEPT !.op = "clear"]

\* What ContactFromID(id) returns for the table as it is: res is <<>> for
\* nil, else the one contact pointed to.  result.Value.(Contact) (line 207)
\* panics on the nil Value of the root of the list copied from.
Lookup(id) ==
  LET contact == [Id |-> id, Addr |-> ZeroAddr]
      index == GetKBucketFromID(id)
  IN IF OutOfRange(index)
     THEN [panic |-> TRUE, res |-> <<>>]
     ELSE LET kbucket == kBuckets[index]
              result == IF kbucket.alloc
                        THEN getFromList(kbucket.contacts, contact) ELSE 0
          IN IF result = 0 THEN [panic |-> FALSE, res |-> <<>>]
             ELSE IF IsRoot(kbucket.contacts, result)
             THEN [panic |-> TRUE, res |-> <<>>]
             ELSE [panic |-> FALSE, res |-> <<kbucket.contacts[result]>>]

ContactFromID(id) ==
  LET r == Lookup(id)
      probe == [Id |-> id, Addr |-> ZeroAddr]
  IN /\ ~last.panic
     /\ before' = kBuckets
     /\ owner' = owner
     /\ kBuckets' = kBuckets
     /\ last' = IF r.panic
                THEN Panicked("ContactFromID", probe, id)
                ELSE [op |-> "ContactFromID", contact |-> probe, id |-> id,
                      found |-> r.res # <<>>, res |-> r.res, panic |-> FALSE,
                      lruDead |-> FALSE, again |-> FALSE]

----------------------------------------------------------------------------
(* findKNearestContacts *)

\* Lines 60-63: a slice of k zero contacts, overwritten by copy() with what
\* getAllContacts returns for the bucket at the target's index.
FirstBucket(index) ==
  LET src == getAllContacts(kBuckets[index].contacts)
  IN Padded(SubSeq(src, 1, IF Len(src) < K THEN Len(src) ELSE K), K)

\* Lines 66-75: the loop never changes curr; its first pass either panics on
\* a nil bucket or appends a whole getAllContacts slice, after which
\* len(kNearest) >= k and it breaks.
ScanLeft(r, index) ==
  IF r.panic \/ ~(Len(r.kNearest) < K) \/ ~(index - 1 > 0) THEN r
  ELSE IF ~kBuckets[index - 1].alloc \/ Overrun(kBuckets[index - 1].contacts)
  THEN [r EXCEPT !.panic = TRUE]
  ELSE [r EXCEPT !.kNearest = @ \o getAllContacts(kBuckets[index - 1].contacts)]

\* Lines 78-86: likewise for curr = index + 1.
ScanRight(r, index) ==
  IF r.panic \/ ~(Len(r.kNearest) < K) \/ ~(index + 1 < Cardinality(DOMAIN kBuckets)) THEN r
  ELSE IF ~kBuckets[index + 1].alloc \/ Overrun(kBuckets[index + 1].contacts)
  THEN [r EXCEPT !.panic = TRUE]
  ELSE [r EXCEPT !.kNearest = @ \o getAllContacts(kBuckets[index + 1].contacts)]

\* Lines 60-89: what is handed to sort.Slice, or a panic.
Collected(id) ==
  LET index == GetKBucketFromID(id)
  IN IF \/ OutOfRange(index)
        \/ ~kBuckets[index].alloc
        \/ Overrun(kBuckets[index].contacts)
     THEN [panic |-> TRUE, kNearest |-> <<>>]
     ELSE LET r == ScanRight(ScanLeft([panic |-> FALSE,
                                       kNearest |-> FirstBucket(index)],
                                      index), index)
          IN [r EXCEPT !.kNearest = SubSeq(@, 1, K)]

\* The less function of lines 90-94: the distance narrowed by Uint64().
\* float64 of a narrowed value is exact at the widths modelled.
Less(id, a, b) ==
  Uint64(distanceBetween(id, a.Id)) < Uint64(distanceBetween(id, b.Id))

\* The ways of laying out the entries of s at the positions in rest so that
\* no entry is less than one laid out before it: any entry that none of
\* the others is less than comes first.
RECURSIVE Orders(_, _, _)
Orders(id, s, rest) ==
  IF rest = {} THEN {<<>>}
  ELSE UNION {{<<s[p]>> \o t : t \in Orders(id, s, rest \ {p})} :
                p \in {q \in rest : \A r \in rest : ~Less(id, s[r], s[q])}}

\* sort.Slice is not stable: every arrangement of the slice in which no
\* element is less than an earlier one is a possible outcome.
SortSlice(id, s) == Orders(id, s, 1 .. Len(s))

findKNearestContacts(id) ==
  LET r == Collected(id)
      probe == [Id |-> id, Addr |-> ZeroAddr]
  IN /\ ~last.panic
     /\ before' = kBuckets
     /\ owner' = owner
     /\ kBuckets' = kBuckets
     /\ IF r.panic
        THEN last' = Panicked("findKNearestContacts", probe, id)
        ELSE \E sorted \in SortSlice(id, r.kNearest) :
               last' = [op |-> "findKNearestContacts", contact |-> probe,
                        id |-> id, found |-> FALSE, res |-> sorted,
                        panic |-> FALSE, lruDead |-> FALSE, again |-> FALSE]

----------------------------------------------------------------------------

\* The calls of a program that makes them one after the other, each taken
\* as one step.
Next ==
  \/ \E contact \in Contacts : add(contact) /\ UNCHANGED <<find, calls>>
  \/ \E contact \in Contacts : remove(contact) /\ UNCHANGED <<find, calls>>
  \/ clear /\ UNCHANGED <<find, calls>>
  \/ \E id \in Ids : ContactFromID(id) /\ UNCHANGED <<find, calls>>
  \/ \E id \in Ids : findKNearestContacts(id) /\ UNCHANGED <<find, calls>>

Spec == Init /\ [][Next]_vars

----------------------------------------------------------------------------
(* findKNearestContacts, one step per pass of its loops *)

\* Passes of the loops of lines 66-86 followed within one call.
MaxPasses == 2

\* The call in progress: nothing is known of the table's last call.
Finding(id) ==
  [NoCall EXCEPT !.op = "finding", !.id = id,
                 !.contact = [Id |-> id, Addr |-> ZeroAddr]]

\* getAllContacts of self.kBuckets[curr] panics: no such index, a nil
\* bucket, or a write past the end of the slice.
ScanPanics(curr) ==
  \/ OutOfRange(curr)
  \/ ~kBuckets[curr].alloc
  \/ Overrun(kBuckets[curr].contacts)

\* Lines 60-63.
FindStart(id) ==
  LET index == GetKBucketFromID(id)
  IN /\ find.pc = "idle"
     /\ ~last.panic
     /\ before' = kBuckets
     /\ UNCHANGED <<owner, kBuckets, calls>>
     /\ IF ScanPanics(index)
        THEN /\ last' = Panicked("findKNearestContacts",
                                 [Id |-> id, Addr |-> ZeroAddr], id)
             /\ find' = find
        ELSE /\ last' = Finding(id)
             /\ find' = [pc |-> "left", id |-> id, index |-> index,
                         curr |-> index, kNearest |-> FirstBucket(index),
                         visited |-> <<>>]

\* The call panics where it stands.
FindPanics ==
  /\ last' = Panicked("findKNearestContacts", last.contact, find.id)
  /\ find' = NoFind

\* Lines 65-75: the test of line 66 with the loop's initialisation, or one
\* evaluation of the loop's condition with the pass it lets in.  The loop
\* steps index, not curr.
FindLeft ==
  /\ find.pc \in {"left", "leftLoop"}
  /\ UNCHANGED <<owner, kBuckets, before, calls>>
  /\ IF find.pc = "left"
     THEN /\ last' = last
          /\ find' = IF Len(find.kNearest) < K
                     THEN [find EXCEPT !.pc = "leftLoop",
                                       !.curr = find.index - 1]
                     ELSE [find EXCEPT !.pc = "right"]
     ELSE IF ~(find.curr > 0)
     THEN /\ last' = last
          /\ find' = [find EXCEPT !.pc = "right"]
     ELSE /\ Len(find.visited) < MaxPasses
          /\ IF ScanPanics(find.curr)
             THEN FindPanics
             ELSE LET kNearest == find.kNearest \o
                        getAllContacts(kBuckets[find.curr].contacts)
                      visited == Append(find.visited, <<"left", find.curr>>)
                  IN /\ last' = last
                     /\ find' = IF Len(kNearest) >= K
                                THEN [find EXCEPT !.pc = "right",
                                                  !.kNearest = kNearest,
                                                  !.visited = visited]
                                ELSE [find EXCEPT !.index = @ - 1,
                                                  !.kNearest = kNearest,
                                                  !.visited = visited]

\* Lines 77-86: likewise to the right, the loop stepping curr.
FindRight ==
  /\ find.pc \in {"right", "rightLoop"}
  /\ UNCHANGED <<owner, kBuckets, before, calls>>
  /\ IF find.pc = "right"
     THEN /\ last' = last
          /\ find' = IF Len(find.kNearest) < K
                     THEN [find EXCEPT !.pc = "rightLoop",
                                       !.curr = find.index + 1]
                     ELSE [find EXCEPT !.pc = "sort"]
     ELSE IF ~(find.curr < Cardinality(DOMAIN kBuckets))
     THEN /\ last' = last
          /\ find' = [find EXCEPT !.pc = "sort"]
     ELSE /\ Len(find.visited) < MaxPasses
          /\ IF ScanPanics(find.curr)
             THEN FindPanics
             ELSE LET kNearest == find.kNearest \o
                        getAllContacts(kBuckets[find.curr].contacts)
                      visited == Append(find.visited, <<"right", find.curr>>)
                  IN /\ last' = last
                     /\ find' = IF Len(kNearest) >= K
                                THEN [find EXCEPT !.pc = "sort",
                                                  !.kNearest = kNearest,
                                                  !.visited = visited]
                                ELSE [find EXCEPT !.curr = @ + 1,
                                                  !.kNearest = kNearest,
                                                  !.visited = visited]

\* Lines 89-96: kNearest[:k], which reaches into the zeroed capacity of the
\* slice where less was collected, then the sort and the return.
FindSort ==
  /\ find.pc = "sort"
  /\ UNCHANGED <<owner, kBuckets, before, calls>>
  /\ find' = NoFind
  /\ \E sorted \in SortSlice(find.id, [i \in 1 .. K |->
                      IF i <= Len(find.kNearest) THEN find.kNearest[i]
                                                 ELSE ZeroContact]) :
       last' = [op |-> "findKNearestContacts", contact |-> last.contact,
                id |-> find.id, found |-> FALSE, res |-> sorted,
                panic |-> FALSE, lruDead |-> FALSE, again |-> FALSE]

\* A findKNearestContacts call is running.
Running == find.pc # "idle"

FindStep == FindLeft \/ FindRight \/ FindSort

\* The contacts that fill the table searched: of each bucket's range at
\* least one, each at the address its id was derived from.
FindContacts == {NewContact(a) : a \in {0, 1, 3, 4, 5}}

\* Calls made one after the other; findKNearestContacts is followed through
\* its loops.
NextFind ==
  \/ \E contact \in FindContacts :
       ~Running /\ add(contact) /\ UNCHANGED <<find, calls>>
  \/ \E contact \in FindContacts :
       ~Running /\ remove(contact) /\ UNCHANGED <<find, calls>>
  \/ \E id \in Ids : FindStart(id)
  \/ FindLeft
  \/ FindRight
  \/ FindSort

\* A call that has begun keeps taking its steps.
SpecFind == Init /\ [][NextFind]_vars /\ WF_vars(FindStep)

----------------------------------------------------------------------------
(* add and remove called from two goroutines.  No line of either takes the
   mutex of line 46; a step is one read or write of the bucket slice, or
   one call on a list. *)

\* The contacts the goroutines and the calls before them hand over: five
\* peers whose addresses lead to one bucket, two of them heard from at an
\* address other than the one their id was derived from.
ConcContacts ==
  {NewContact(a) : a \in {0, 4, 6}} \cup
  {[Id |-> HashAddr(m[1]), Addr |-> m[2]] : m \in {<<3, 0>>, <<5, 0>>}}

Started == \E g \in Goroutines : calls[g].pc # "idle"

AllDone == \A g \in Goroutines : calls[g].pc = "done"

\* A panic ends the program, every goroutine with it.
Crashed == \E g \in Goroutines : calls[g].panic

\* Lines 99-100 and 111-112: the call begins and computes its index.  The
\* table as the first of the goroutines' calls finds it is kept in `before`.
Go(g, op, contact) ==
  /\ calls[g].pc = "idle"
  /\ ~last.panic
  /\ ~Crashed
  /\ before' = IF Started THEN before ELSE kBuckets
  /\ last' = [NoCall EXCEPT !.op = "go"]
  /\ UNCHANGED <<owner, kBuckets, find>>
  /\ calls' = [calls EXCEPT ![g] =
       [NoGoroutine EXCEPT !.pc = IF op = "add" THEN "slot" ELSE "search",
                           !.op = op, !.contact = contact,
                           !.index = GetKBucketFromAddr(contact.Addr)]]

\* Line 102: add reads the slot and compares it with nil.
TestSlot(g) ==
  LET c == calls[g]
  IN /\ c.pc = "slot"
     /\ ~Crashed
     /\ UNCHANGED <<owner, kBuckets, before, last, find>>
     /\ calls' = [calls EXCEPT ![g] =
          IF OutOfRange(c.index) THEN [c EXCEPT !.pc = "done", !.panic = TRUE]
          ELSE IF ~kBuckets[c.index].alloc THEN [c EXCEPT !.pc = "create"]
          ELSE [c EXCEPT !.pc = "search"]]

\* Line 104: add writes a new bucket to the slot.  A goroutine that holds
\* the bucket the slot had holds a bucket of no table from here on.
CreateBucket(g) ==
  LET c == calls[g]
  IN /\ c.pc = "create"
     /\ ~Crashed
     /\ UNCHANGED <<owner, before, last, find>>
     /\ kBuckets' = [kBuckets EXCEPT ![c.index] = NewKBucket]
     /\ calls' = [h \in Goroutines |->
          IF h = g THEN [c EXCEPT !.pc = "search"]
          ELSE IF calls[h].pc = "apply" /\ calls[h].index = c.index
          THEN [calls[h] EXCEPT !.orphan = TRUE]
          ELSE calls[h]]

\* What addContact (lines 161-162, 169) or removeContact (lines 218-219)
\* finds in the list.
Decision(op, contacts, contact) ==
  LET element == getFromList(contacts, contact)
  IN IF element # 0
     THEN IF IsRoot(contacts, element) THEN "root"
          ELSE IF op = "add" THEN "move" ELSE "unlink"
     ELSE IF op = "remove" THEN "none"
     ELSE IF Len(contacts) < K THEN "push" ELSE "full"

\* Lines 106 and 113 with the head of addContact and removeContact: the
\* slot is read, the list of its bucket searched and its length tested.
SearchList(g) ==
  LET c == calls[g]
  IN /\ c.pc = "search"
     /\ ~Crashed
     /\ UNCHANGED <<owner, kBuckets, before, last, find>>
     /\ IF OutOfRange(c.index) \/ ~kBuckets[c.index].alloc
        THEN calls' = [calls EXCEPT ![g] =
                         [c EXCEPT !.pc = "done", !.panic = TRUE]]
        ELSE LET contacts == kBuckets[c.index].contacts
                 decision == Decision(c.op, contacts, c.contact)
             IN \* whether the least-recently seen node would answer a
                \* ping; the program never asks
                \E dead \in (IF decision = "full" THEN BOOLEAN ELSE {FALSE}) :
                  calls' = [calls EXCEPT ![g] =
                    [c EXCEPT !.pc = "apply",
                              !.decision = decision,
                              !.element = getFromList(contacts, c.contact),
                              !.lruDead = dead,
                              !.lru = IF decision = "full"
                                      THEN contacts[Len(contacts)]
                                      ELSE ZeroContact]]

\* Where the element another goroutine holds stands after the list call
\* `decision` was made on the element at position e.
Tracked(element, decision, e) ==
  IF element = 0 THEN 0
  ELSE IF decision = "push" THEN element + 1
  ELSE IF decision = "move"
       THEN IF element = e THEN 1
            ELSE IF element < e THEN element + 1 ELSE element
  ELSE IF element = e THEN 0
       ELSE IF element > e THEN element - 1 ELSE element

\* Lines 164, 170, 186 and 220-223: the list call decided on, made on the
\* bucket the goroutine holds, and the return.
ApplyDecision(g) ==
  LET c == calls[g]
      contacts == kBuckets[c.index].contacts
      acts == /\ ~c.orphan
              /\ \/ c.decision = "push"
                 \/ c.decision \in {"move", "unlink"} /\ c.element # 0
  IN /\ c.pc = "apply"
     /\ ~Crashed
     /\ UNCHANGED <<owner, before, last, find>>
     /\ kBuckets' =
          IF ~acts THEN kBuckets
          ELSE [kBuckets EXCEPT ![c.index].contacts =
                  IF c.decision = "push" THEN <<c.contact>> \o contacts
                  ELSE IF c.decision = "move"
                  THEN MoveToFront(contacts, c.element)
                  ELSE Remove(contacts, c.element)]
     /\ calls' = [h \in Goroutines |->
          IF h = g THEN [c EXCEPT !.pc = "done"]
          ELSE IF /\ acts
                  /\ calls[h].pc = "apply"
                  /\ calls[h].index = c.index
                  /\ ~calls[h].orphan
          THEN [calls[h] EXCEPT
                  !.element = Tracked(@, c.decision, c.element)]
          ELSE calls[h]]

\* Calls made one after the other fill the table; then each goroutine makes
\* one call, their steps in any order.
NextConc ==
  \/ \E contact \in ConcContacts :
       ~Started /\ add(contact) /\ UNCHANGED <<find, calls>>
  \/ \E g \in Goroutines, op \in {"add", "remove"}, contact \in ConcContacts :
       Go(g, op, contact)
  \/ \E g \in Goroutines : TestSlot(g)
  \/ \E g \in Goroutines : CreateBucket(g)
  \/ \E g \in Goroutines : SearchList(g)
  \/ \E g \in Goroutines : ApplyDecision(g)

SpecConc == Init /\ [][NextConc]_vars

----------------------------------------------------------------------------
(* What the properties talk about *)

\* The contacts a table holds, each with the index of its bucket.
Entries(tbl) ==
  UNION {{<<i, tbl[i].contacts[p]>> : p \in 1 .. Len(tbl[i].contacts)} :
           i \in DOMAIN tbl}

Stored(tbl) == {e[2] : e \in Entries(tbl)}

Holding(tbl, id) == {e \in Entries(tbl) : e[2].Id = id}

\* Number of contacts in the bucket at index, none where there is no bucket.
BucketLen(tbl, index) ==
  IF index \in DOMAIN tbl THEN Len(tbl[index].contacts) ELSE 0

Range(s) == {s[i] : i \in 1 .. Len(s)}

Min(a, b) == IF a < b THEN a ELSE b

Called(op) == last.op = op

Returned(op) == last.op = op /\ ~last.panic

----------------------------------------------------------------------------
(* Properties *)

\* C1: after add(c) of a contact whose id is not the owner's and whose bucket
\* holds fewer than k contacts, ContactFromID(c.Id) returns a contact with
\* c's id and c's address.  Stated for the calls made on a table that has its
\* buckets, with a contact that add and ContactFromID route to one bucket.
C1_AddThenLookup ==
  (/\ Called("add")
   /\ last.contact.Id # owner
   /\ before # <<>>
   /\ GetKBucketFromAddr(last.contact.Addr) = GetKBucketFromID(last.contact.Id)
   /\ BucketLen(before, GetKBucketFromID(last.contact.Id)) < K)
  => (/\ ~last.panic
      /\ ~Lookup(last.contact.Id).panic
      /\ Lookup(last.contact.Id).res = <<last.contact>>)

\* C2: no bucket ever holds more than k contacts.
C2_BucketAtMostK ==
  \A i \in DOMAIN kBuckets : Len(kBuckets[i].contacts) <= K

\* An add has just been turned away by a bucket that holds exactly k contacts.
C2_Witness ==
  /\ Returned("add")
  /\ ~last.found
  /\ BucketLen(kBuckets, GetKBucketFromAddr(last.contact.Addr)) = K

\* C3: no identifier occurs in more than one stored contact, neither twice in
\* one bucket nor in two buckets.
C3_NoDuplicateIds ==
  \A id \in Ids : Cardinality(Holding(kBuckets, id)) <= 1

\* C4: after add of a contact whose id was stored with another address, the
\* table holds exactly one contact with that id, its address is the one just
\* given, and ContactFromID returns it.
C4_ReAddUpdatesAddress ==
  (/\ Called("add")
   /\ \E c \in Stored(before) :
        c.Id = last.contact.Id /\ c.Addr # last.contact.Addr)
  => (/\ ~last.panic
      /\ Holding(kBuckets, last.contact.Id)
           = {<<GetKBucketFromID(last.contact.Id), last.contact>>}
      /\ Lookup(last.contact.Id).res = <<last.contact>>)

\* Distance of a returned entry to the target of the last call.
Dist(c) == distanceBetween(c.Id, last.id)

\* C5: what findKNearestContacts returns is in order of non-decreasing XOR
\* distance to the target.  Stated for the entries that are contacts of the
\* table, in the order the result has them.
C5_ResultSorted ==
  Returned("findKNearestContacts")
  => LET IsStored(c) == c \in Stored(kBuckets)
         real == SelectSeq(last.res, IsStored)
     IN \A i \in 1 .. (Len(real) - 1) : Dist(real[i]) <= Dist(real[i + 1])

\* C6: findKNearestContacts returns min(k, N) entries, N the number of
\* contacts in the table, and each entry is a contact of the table.
C6_ResultLengthAndMembers ==
  Returned("findKNearestContacts")
  => /\ Len(last.res) = Min(K, Cardinality(Entries(kBuckets)))
     /\ Range(last.res) \subseteq Stored(kBuckets)

\* C7: no contact of the table that findKNearestContacts left out is strictly
\* nearer to the target than the farthest entry it returned.  Stated for the
\* tables whose contacts all have the id NewContact derives from their
\* address.
C7_ResultNotDominated ==
  (/\ Returned("findKNearestContacts")
   /\ \A c \in Stored(kBuckets) : c = NewContact(c.Addr))
  => \A c \in Stored(kBuckets) \ Range(last.res) :
       \A r \in Range(last.res) : ~(Dist(c) < Dist(r))

\* C8: remove of a contact that is in the table returns true and takes it
\* out; the same remove made again at once, the first having taken the
\* contact out, returns false, does not panic and leaves the table as the
\* first call left it.
C8_RemoveTwice ==
  /\ (Called("remove") /\ last.contact \in Stored(before))
     => (/\ ~last.panic
         /\ last.found
         /\ last.contact \notin Stored(kBuckets))
  /\ (Called("remove") /\ last.again)
     => (/\ ~last.panic
         /\ ~last.found
         /\ kBuckets = before)

\* C9: ContactFromID and remove for an id that no stored contact has return
\* nil / false, do not panic and leave the table as it was, also where the
\* id's bucket was never created.  Stated for the calls made on a table that
\* has its buckets, with an id other than the owner's.
C9_AbsentIdNotFound ==
  (/\ Called("ContactFromID") \/ Called("remove")
   /\ before # <<>>
   /\ last.id # owner
   /\ GetKBucketFromAddr(last.contact.Addr) \in DOMAIN before
   /\ Holding(before, last.id) = {})
  => (/\ ~last.panic
      /\ ~last.found
      /\ last.res = <<>>
      /\ kBuckets = before)

\* C10: after add of a new contact to a bucket that holds k contacts, the
\* least-recently seen of them not answering, that one is out of the bucket
\* and the new contact (or the newest of the replacement cache) is in it.
C10_DeadLruEvicted ==
  LET index == GetKBucketFromAddr(last.contact.Addr)
      old == before[index].contacts
      new == kBuckets[index].contacts
      cache == before[index].lruCache
  IN (/\ Returned("add")
      /\ BucketFull(old, last.contact)
      /\ last.lruDead)
     => (/\ old[Len(old)] \notin Range(new)
         /\ \/ last.contact \in Range(new)
            \/ cache # <<>> /\ cache[1] \in Range(new))

\* The last call was an add that the code routed to a bucket slot.
AddRouted ==
  Called("add") /\ GetKBucketFromAddr(last.contact.Addr) \in DOMAIN before

\* The bucket the last add was routed to, as the call found it and left it.
OldBucket == before[GetKBucketFromAddr(last.contact.Addr)]
NewBucket == kBuckets[GetKBucketFromAddr(last.contact.Addr)]

\* C11: after add of a new contact to a bucket that holds k contacts, the
\* least-recently seen of them answering, the bucket's list is what it was,
\* the new contact is not in it, and the call did not panic.
C11_AliveLruKept ==
  (/\ AddRouted
   /\ BucketFull(OldBucket.contacts, last.contact)
   /\ ~last.lruDead)
  => (/\ ~last.panic
      /\ NewBucket.contacts = OldBucket.contacts
      /\ last.contact \notin Range(NewBucket.contacts))

\* An add of a new contact has met a full bucket whose least-recently seen
\* contact is alive.
C11_Witness ==
  /\ AddRouted
  /\ ~last.panic
  /\ BucketFull(OldBucket.contacts, last.contact)
  /\ ~last.lruDead
  /\ Len(NewBucket.contacts) = K

\* C12: add of a contact with the owner's id changes nothing and does not
\* panic, and no stored contact ever has the owner's id.  Stated for the adds
\* whose address leads to a bucket slot.
C12_SelfIgnored ==
  /\ (AddRouted /\ last.contact.Id = owner)
     => (~last.panic /\ kBuckets = before)
  /\ \A c \in Stored(kBuckets) : c.Id # owner

\* C13: a table that was cleared behaves as a new one: add stores its
\* contact and ContactFromID returns, neither panics.  Stated for ids and
\* addresses other than the owner's.
C13_ClearedAsNew ==
  /\ (Called("clear") => Stored(kBuckets) = {})
  /\ (/\ before = <<>>
      /\ Called("add")
      /\ GetKBucketFromAddr(last.contact.Addr) # NoIndex)
     => (~last.panic /\ last.contact \in Stored(kBuckets))
  /\ (before = <<>> /\ Called("ContactFromID") /\ last.id # owner)
     => (~last.panic /\ ~last.found)

\* C16: every contact sits in the bucket whose index bucketIndex gives for
\* the owner's id and the contact's id.  Stated for the contacts that do not
\* have the owner's id.
C16_StoredAtIndexOfId ==
  \A e \in Entries(kBuckets) :
    e[2].Id # owner => bucketIndex(owner, e[2].Id) = e[1]

\* The contacts of a list other than the one with this id, in list order.
Others(contacts, id) ==
  LET Other(c) == c.Id # id
  IN SelectSeq(contacts, Other)

\* C17: a bucket's list runs from least-recently seen at the front to
\* most-recently seen at the back: after an add that stored or refreshed its
\* contact, the contact is the last of the list and the other contacts are
\* in the order they were in.
C17_NewestAtBack ==
  (AddRouted /\ ~last.panic /\ last.found)
  => (/\ NewBucket.contacts # <<>>
      /\ NewBucket.contacts[Len(NewBucket.contacts)].Id = last.contact.Id
      /\ Others(NewBucket.contacts, last.contact.Id)
           = Others(OldBucket.contacts, last.contact.Id))

\* C18: a new contact that meets a full bucket becomes the last entry of
\* that bucket's replacement cache, and no replacement cache holds more than
\* k entries.
C18_FullGoesToCache ==
  /\ (AddRouted /\ ~last.panic /\ BucketFull(OldBucket.contacts, last.contact))
     => (/\ ~last.found
         /\ NewBucket.lruCache # <<>>
         /\ NewBucket.lruCache[Len(NewBucket.lruCache)] = last.contact)
  /\ \A i \in DOMAIN kBuckets : Len(kBuckets[i].lruCache) <= K

\* C19: in what findKNearestContacts returns, a stored contact strictly
\* nearer to the target by the full-width XOR distance comes before a stored
\* contact that is farther.
C19_FullWidthOrder ==
  Returned("findKNearestContacts")
  => \A i, j \in 1 .. Len(last.res) :
       (/\ last.res[i] \in Stored(kBuckets)
        /\ last.res[j] \in Stored(kBuckets)
        /\ Dist(last.res[i]) < Dist(last.res[j]))
       => i < j

\* No bucket index is passed over twice by one loop of a call.
NoRevisit ==
  \A i, j \in 1 .. Len(find.visited) :
    i # j => find.visited[i] # find.visited[j]

\* A loop that goes on has collected fewer than k entries.
LoopWhileShort ==
  find.pc \in {"leftLoop", "rightLoop"} => Len(find.kNearest) < K

\* C20: every findKNearestContacts call comes to its end, whatever the table
\* and the target: neither loop passes over a bucket index twice, a loop
\* goes on only while fewer than k entries are collected, and a call that
\* has begun returns or panics.
C20_FindEnds == [](NoRevisit /\ LoopWhileShort) /\ (Running ~> ~Running)

\* A call has returned from a table that holds contacts outside the
\* target's bucket, that bucket holding fewer than k: the case in which the
\* loops are there to look further.
C20_Witness ==
  /\ Returned("findKNearestContacts")
  /\ ~Running
  /\ BucketLen(kBuckets, GetKBucketFromID(last.id)) < K
  /\ \E i \in DOMAIN kBuckets :
       i # GetKBucketFromID(last.id) /\ kBuckets[i].contacts # <<>>

\* add (lines 99-109) or remove (lines 111-114) made on the table tbl with
\* no other call under way: the table it leaves, and whether it panics.
SerialCall(tbl, op, contact) ==
  LET index == GetKBucketFromAddr(contact.Addr)
  IN IF index \notin DOMAIN tbl
     THEN [tbl |-> tbl, panic |-> TRUE]
     ELSE IF op = "add"
     THEN LET bucket == IF tbl[index].alloc THEN tbl[index] ELSE NewKBucket
              r == addContact(bucket.contacts, contact)
          IN [tbl |-> [tbl EXCEPT ![index] =
                         [bucket EXCEPT !.contacts = r.contacts]],
              panic |-> FALSE]
     ELSE IF ~tbl[index].alloc
     THEN [tbl |-> tbl, panic |-> TRUE]
     ELSE [tbl |-> [tbl EXCEPT ![index].contacts =
                      removeContact(@, contact).contacts],
           panic |-> FALSE]

\* The goroutines' calls made one after the other, g first and h second, on
\* the table the goroutines found.
SerialOrder(g, h) ==
  LET first == SerialCall(before, calls[g].op, calls[g].contact)
      second == SerialCall(first.tbl, calls[h].op, calls[h].contact)
  IN [tbl |-> second.tbl, panic |-> first.panic \/ second.panic]

\* C14: add and remove each run inside one critical section of the whole
\* table: when two calls made at the same time have both returned, the table
\* is the one that the two calls leave when made one after the other, in
\* one order or the other, and neither call has panicked.  Stated for the
\* pairs of calls that panic in neither order.
C14_Serializable ==
  (/\ AllDone
   /\ ~SerialOrder(1, 2).panic
   /\ ~SerialOrder(2, 1).panic)
  => /\ ~Crashed
     /\ \/ kBuckets = SerialOrder(1, 2).tbl
        \/ kBuckets = SerialOrder(2, 1).tbl

\* C15: two add calls made at the same time have both met a full bucket with
\* the same least-recently seen contact, which would answer neither's ping;
\* when both have returned that contact is out of the bucket, every other
\* contact the bucket had is still in it, and neither call has panicked.
C15_EvictedOnce ==
  (/\ AllDone
   /\ \A g \in Goroutines :
        /\ calls[g].op = "add"
        /\ calls[g].decision = "full"
        /\ calls[g].lruDead
        /\ ~calls[g].orphan
   /\ calls[1].index = calls[2].index
   /\ calls[1].lru = calls[2].lru)
  => LET old == before[calls[1].index].contacts
         new == kBuckets[calls[1].index].contacts
     IN /\ ~Crashed
        /\ calls[1].lru \notin Range(new)
        /\ Range(old) \ {calls[1].lru} \subseteq Range(new)

====
